---- MODULE Spec2Model ----
(***************************************************************************)
(* Chase the Source: the claim-verification pipeline                       *)
(*   claim_extractor -> source_retriever -> evidence_filter ->             *)
(*   source_comparer -> attribution_assembler -> END                       *)
(* modelled from graph.py and nodes/*.py.                                  *)
(*                                                                         *)
(* Conventions                                                             *)
(*   - a Python str whose characters matter (quotes, content, hostnames)   *)
(*     is a sequence of one-character strings;                             *)
(*   - a Python str of which only the length matters (summaries, error     *)
(*     texts) is a record [kind, len];                                     *)
(*   - an optional value is <<>> (None) or <<x>>;                          *)
(*   - a float in [0,1] is an integer number of hundredths.                *)
(***************************************************************************)
EXTENDS Integers, Sequences, FiniteSets, TLC

(***************************************************************************)
(* Optional values                                                         *)
(***************************************************************************)
None == <<>>

Some(x) == <<x>>

IsNone(o) == o = <<>>

Get(o) == o[1]

(***************************************************************************)
(* Python str operations on character sequences                            *)
(***************************************************************************)
SP == <<" ">>

IsSpace(c) == c = " "

LowerChar(c) ==
    CASE c = "A" -> "a"
      [] c = "B" -> "b"
      [] c = "C" -> "c"
      [] OTHER -> c

\* str.lower()
lower(s) == [i \in 1..Len(s) |-> LowerChar(s[i])]

\* str.strip(): drop leading and trailing whitespace
strip(s) ==
    LET nonws == {i \in 1..Len(s) : ~IsSpace(s[i])}
    IN  IF nonws = {} THEN <<>>
        ELSE LET lo == CHOOSE i \in nonws : \A j \in nonws : i <= j
                 hi == CHOOSE i \in nonws : \A j \in nonws : j <= i
             IN  SubSeq(s, lo, hi)

\* needle in hay
contains(hay, needle) ==
    /\ Len(needle) <= Len(hay)
    /\ \E k \in 0..(Len(hay) - Len(needle)) :
          SubSeq(hay, k + 1, k + Len(needle)) = needle

\* str.endswith(suffix)
endswith(s, suffix) ==
    /\ Len(suffix) <= Len(s)
    /\ SubSeq(s, Len(s) - Len(suffix) + 1, Len(s)) = suffix

RECURSIVE splitFrom(_, _, _)
\* str.split() with no separator: maximal runs of non-whitespace, in order
splitFrom(s, i, cur) ==
    IF i > Len(s)
    THEN IF cur = <<>> THEN <<>> ELSE <<cur>>
    ELSE IF IsSpace(s[i])
         THEN IF cur = <<>> THEN splitFrom(s, i + 1, <<>>)
              ELSE <<cur>> \o splitFrom(s, i + 1, <<>>)
         ELSE splitFrom(s, i + 1, Append(cur, s[i]))

split(s) == splitFrom(s, 1, <<>>)

\* bool(x) of an optional str: None and "" are falsy
truthy(o) == ~IsNone(o) /\ Get(o) # <<>>

Range(f) == {f[i] : i \in DOMAIN f}

Spaces(n) == [i \in 1..n |-> " "]

(***************************************************************************)
(* Program constants                                                       *)
(***************************************************************************)
\* Field(max_length=500) on SourceAttribution.summary
MaxSummaryLen == 500

\* Field(max_length=5) on SourceAttribution.evidence_list
MaxEvidenceList == 5

\* evidence_list[:5]
TopK == 5

\* Field(min_length=10) on Evidence.verbatim_quote
MinQuoteLen == 10

\* relevance_score < 0.5, in hundredths
MinRelevance == 50

\* overlap < 0.6, in hundredths
MinOverlap == 60

\* len("An error occurred while assembling the attribution: ")
AssemblyPrefixLen == 52

\* len("Could not extract a verifiable factual claim from the input.")
DefaultSummaryLen == 60

\* len("No relevant sources were found that address this claim.")
NoSourcesSummaryLen == 55

SourceTypes == {"primary", "original_reporting", "secondary", "unknown"}

SourceAttributions == {"direct", "paraphrase", "contradiction"}

AttributionTypes == {"direct", "paraphrase", "contradiction", "not_found"}

(***************************************************************************)
(* Bounds of the model                                                     *)
(***************************************************************************)
\* longest provider response assembled freely from PairItems
MaxShort == 2

\* length of the provider responses in which every result is admitted
MaxWide == 6

\* longest gathered result list of the ranking specification
MaxGathered == 6

\* longest assessment list handed to the assembler on its own
MaxAssessments == 3

(***************************************************************************)
(* The outside world: texts, hosts, service responses, provider results    *)
(***************************************************************************)
Sentence(ws) ==
    LET RECURSIVE join(_)
        join(k) == IF k = 0 THEN <<>>
                   ELSE IF k = 1 THEN ws[1]
                   ELSE join(k - 1) \o SP \o ws[k]
    IN  join(Len(ws))

\* candidate contents
ContentMain == Sentence(<< <<"A","a">>, <<"b">>, <<"c">>, <<"d">>, <<"e">>, <<"f">> >>)

ContentOther == Sentence(<< <<"x">>, <<"y">>, <<"x">>, <<"y">>, <<"x">>, <<"y">> >>)

\* quotes the relevance call may return
QuoteExact == Sentence(<< <<"a","a">>, <<"b">>, <<"c">>, <<"d">>, <<"e">> >>)

QuoteUpper == Sentence(<< <<"A","A">>, <<"B">>, <<"c">>, <<"d">>, <<"e">> >>)

QuotePadded == SP \o QuoteExact \o SP

QuoteOverlap60 == Sentence(<< <<"a","a">>, <<"b">>, <<"c">>, <<"x">>, <<"y">> >>)

QuoteOverlap40 == Sentence(<< <<"a","a">>, <<"b">>, <<"x">>, <<"y">>, <<"x">> >>)

QuoteShort == Sentence(<< <<"a","a">>, <<"b">>, <<"c">> >>)

QuoteBlankLong == Spaces(MinQuoteLen)

QuoteBlankShort == Spaces(3)

Quotes ==
    { None, Some(<<>>), Some(QuoteExact), Some(QuoteUpper), Some(QuotePadded),
      Some(QuoteOverlap60), Some(QuoteOverlap40), Some(QuoteShort),
      Some(QuoteBlankLong), Some(QuoteBlankShort) }

Scores == {40, 50, 90}

\* hostnames
HostOrigin == <<"b", ".", "c">>

HostSub == <<"a", ".", "b", ".", "c">>

HostLookalike == <<"a", "b", ".", "c">>

HostOther == <<"d", ".", "c">>

\* a hostname that is a proper suffix of the origin's hostname
HostTail == <<"c">>

Url(n, h) == [id |-> n, host |-> h]

\* responses of the completion service for one candidate; ok = FALSE is a
\* transport failure or a response the structured-output schema rejects
RelFailed == [ok |-> FALSE, is_relevant |-> FALSE, relevance_score |-> 0, verbatim_quote |-> None]

Rel(r, s, q) == [ok |-> TRUE, is_relevant |-> r, relevance_score |-> s, verbatim_quote |-> q]

ClsFailed == [ok |-> FALSE, source_type |-> "unknown"]

Cls(t) == [ok |-> TRUE, source_type |-> t]

CmpFailed == [ok |-> FALSE, attribution |-> "direct"]

Cmp(a) == [ok |-> TRUE, attribution |-> a]

RelResponses == {RelFailed} \cup {Rel(r, s, q) : r \in BOOLEAN, s \in Scores, q \in Quotes}

ClsResponses == {ClsFailed} \cup {Cls(t) : t \in SourceTypes}

CmpResponses == {CmpFailed} \cup {Cmp(a) : a \in SourceAttributions}

\* one entry of the provider's "results" list, together with the answers the
\* completion service gives when asked about it
Item(u, v, raw, c, rel, cls, cmp) ==
    [url |-> u, valid |-> v, raw_content |-> raw, content |-> c,
     rel |-> rel, cls |-> cls, cmp |-> cmp]

RawContents == {None, Some(<<>>), Some(ContentOther)}

RichItems ==
    { Item(Some(Url(1, HostOther)), TRUE, raw, ContentMain, rel, cls, cmp) :
        raw \in RawContents, rel \in RelResponses,
        cls \in ClsResponses, cmp \in CmpResponses }

RelHigh == Rel(TRUE, 90, Some(QuoteExact))

RelLow == Rel(TRUE, 50, Some(QuoteOverlap60))

Good(u) == Item(Some(u), TRUE, None, ContentMain, RelHigh, Cls("primary"), Cmp("direct"))

PairItems ==
    LET U1 == Url(1, HostOther)
        U2 == Url(2, HostLookalike)
    IN  { Item(Some(u), TRUE, None, ContentMain, r[1], r[2], r[3]) :
            u \in {U1, U2},
            r \in { <<RelHigh, Cls("primary"), Cmp("direct")>>,
                    <<RelLow, Cls("secondary"), Cmp("paraphrase")>>,
                    <<RelHigh, Cls("secondary"), CmpFailed>>,
                    <<RelFailed, Cls("unknown"), Cmp("direct")>> } }
        \cup { Item(Some(U1), TRUE, None, ContentMain, RelHigh, ClsFailed, Cmp("direct")),
               Item(Some(U2), TRUE, None, ContentMain, Rel(FALSE, 90, Some(QuoteExact)),
                    Cls("primary"), Cmp("direct")),
               [Good(U1) EXCEPT !.valid = FALSE],
               [Good(U1) EXCEPT !.url = None],
               Good(Url(3, HostSub)),
               Good(Url(4, HostOrigin)) }

SeqsUpTo(S, n) == UNION {[1..k -> S] : k \in 0..n}

WidePatterns == {"equal", "ascending", "descending", "alternating", "gaps"}

WideScore(p, i) ==
    CASE p = "equal" -> 90
      [] p = "ascending" -> 50 + 5 * i
      [] p = "descending" -> 95 - 5 * i
      [] OTHER -> IF i % 2 = 1 THEN 50 ELSE 90

TypeOf(i) ==
    CASE i % 4 = 0 -> "primary"
      [] i % 4 = 1 -> "secondary"
      [] i % 4 = 2 -> "original_reporting"
      [] OTHER -> "unknown"

AttrOf(i) ==
    CASE i % 3 = 0 -> "direct"
      [] i % 3 = 1 -> "paraphrase"
      [] OTHER -> "contradiction"

WideItem(p, i) ==
    Item(Some(Url(10 + i, HostOther)), TRUE, None, ContentMain,
         IF p = "gaps" /\ i = 2 THEN RelFailed
         ELSE Rel(TRUE, WideScore(p, i), Some(QuoteExact)),
         Cls(TypeOf(i)),
         IF p = "gaps" /\ i = 4 THEN CmpFailed ELSE Cmp(AttrOf(i)))

WideResponses == { [i \in 1..MaxWide |-> WideItem(p, i)] : p \in WidePatterns }

\* responses with a result on a suffix of the origin's hostname
SuffixResponses ==
    { <<Good(Url(5, HostTail))>>,
      <<Good(Url(3, HostSub)), Good(Url(5, HostTail))>>,
      <<Good(Url(5, HostTail)), Good(Url(4, HostOrigin))>> }

\* twenty tokens of which eleven are tokens of ContentMain: 55% overlap
QuoteOverlap55 ==
    Sentence([k \in 1..20 |->
                 IF k > 11 THEN <<"z">>
                 ELSE IF k % 3 = 1 THEN <<"a", "a">>
                 ELSE IF k % 3 = 2 THEN <<"c">>
                 ELSE <<"e">>])

\* a response with a quote of exactly 60% overlap and one of 55% overlap
OverlapResponses ==
    { << Item(Some(Url(1, HostOther)), TRUE, None, ContentMain,
              Rel(TRUE, 90, Some(QuoteOverlap60)), Cls("primary"), Cmp("direct")),
         Item(Some(Url(2, HostOther)), TRUE, None, ContentMain,
              Rel(TRUE, 90, Some(QuoteOverlap55)), Cls("primary"), Cmp("direct")) >> }

\* what tavily.search may return in response["results"]
ProviderResponses ==
    SeqsUpTo(PairItems, MaxShort) \cup {<<it>> : it \in RichItems} \cup WideResponses
    \cup SuffixResponses \cup OverlapResponses

\* lengths of the texts of which only the length matters
TextLens == {0, 20, MaxSummaryLen - AssemblyPrefixLen, MaxSummaryLen - AssemblyPrefixLen + 1,
             MaxSummaryLen, MaxSummaryLen + 1}

Text(k, n) == [kind |-> k, len |-> n]

(***************************************************************************)
(* evidence_filter.assess_and_classify, after both calls have returned     *)
(***************************************************************************)
\* (result.raw_content or result.content or "").lower()
source_text_of(result) ==
    lower(IF truthy(result.raw_content) THEN Get(result.raw_content) ELSE result.content)

\* sum(1 for t in q_tokens if t in source_text.split())
overlap_count(q_tokens, source_text) ==
    Cardinality({i \in 1..Len(q_tokens) : q_tokens[i] \in Range(split(source_text))})

\* the test written overlap <= 0.6: a ratio of exactly 0.6 is turned away
overlap_too_low_strict(q_tokens, source_text) ==
    IF q_tokens # <<>>
    THEN 100 * overlap_count(q_tokens, source_text) <= MinOverlap * Len(q_tokens)
    ELSE TRUE

\* overlap < 0.6, with overlap = count / len(q_tokens), or 0 without tokens
overlap_too_low(q_tokens, source_text) ==
    IF q_tokens # <<>>
    THEN 100 * overlap_count(q_tokens, source_text) < MinOverlap * Len(q_tokens)
    ELSE TRUE

\* the quote after the integrity check: unchanged, or None
checked_quote(quote, source_text) ==
    IF truthy(quote)
    THEN LET normalized_quote == lower(strip(Get(quote)))
         IN  IF ~contains(source_text, normalized_quote)
                /\ overlap_too_low(split(normalized_quote), source_text)
             THEN None
             ELSE quote
    ELSE quote

Evidence(result, relevance_result, classification_result) ==
    [source_url |-> result.url,
     source_type |-> classification_result.source_type,
     verbatim_quote |-> Get(relevance_result.verbatim_quote),
     relevance_score |-> relevance_result.relevance_score]

\* the score test written with <= : a score of exactly 0.5 is turned away
assess_and_classify_strict(result, relevance_result, classification_result) ==
    IF IsNone(relevance_result) \/ IsNone(classification_result) THEN None
    ELSE LET rel == Get(relevance_result)
             cls == Get(classification_result)
         IN  IF ~rel.is_relevant THEN None
             ELSE IF rel.relevance_score <= MinRelevance THEN None
             ELSE LET quote == checked_quote(rel.verbatim_quote, source_text_of(result))
                  IN  IF ~truthy(quote) THEN None
                      ELSE IF Len(Get(quote)) < MinQuoteLen THEN None
                      ELSE Some(Evidence(result, [rel EXCEPT !.verbatim_quote = quote], cls))

\* the value the task of one candidate returns: an Evidence or None.
\* relevance_result and classification_result are what the two calls returned,
\* None for a call that raised (the except branch returns None)
assess_and_classify(result, relevance_result, classification_result) ==
    IF IsNone(relevance_result) \/ IsNone(classification_result) THEN None
    ELSE LET rel == Get(relevance_result)
             cls == Get(classification_result)
         IN  IF ~rel.is_relevant THEN None
             ELSE IF rel.relevance_score < MinRelevance THEN None
             ELSE LET quote == checked_quote(rel.verbatim_quote, source_text_of(result))
                  IN  IF ~truthy(quote) THEN None
                      ELSE IF Len(Get(quote)) < MinQuoteLen THEN None
                      ELSE Some(Evidence(result, [rel EXCEPT !.verbatim_quote = quote], cls))

(***************************************************************************)
(* evidence_filter.filter_evidence_async: ranking of the gathered results  *)
(***************************************************************************)
\* [e for e in evidence_results if e is not None]
\* a filter that stops at the first None: the items after a failed one are lost
RECURSIVE not_none_prefix(_)
not_none_prefix(rs) ==
    IF rs = <<>> THEN <<>>
    ELSE IF IsNone(Head(rs)) THEN <<>>
    ELSE <<Get(Head(rs))>> \o not_none_prefix(Tail(rs))

RECURSIVE not_none(_)
not_none(rs) ==
    IF rs = <<>> THEN <<>>
    ELSE IF IsNone(Head(rs)) THEN not_none(Tail(rs))
    ELSE <<Get(Head(rs))>> \o not_none(Tail(rs))

\* an insertion that puts e in front of the elements of equal score
RECURSIVE insert_desc_unstable(_, _)
insert_desc_unstable(sorted, e) ==
    IF sorted = <<>> THEN <<e>>
    ELSE IF Head(sorted).relevance_score > e.relevance_score
         THEN <<Head(sorted)>> \o insert_desc_unstable(Tail(sorted), e)
         ELSE <<e>> \o sorted

\* one insertion of a stable descending sort: e goes behind every element
\* whose score is not smaller
RECURSIVE insert_desc(_, _)
insert_desc(sorted, e) ==
    IF sorted = <<>> THEN <<e>>
    ELSE IF Head(sorted).relevance_score >= e.relevance_score
         THEN <<Head(sorted)>> \o insert_desc(Tail(sorted), e)
         ELSE <<e>> \o sorted

\* list.sort(key=lambda e: e.relevance_score, reverse=True): stable
RECURSIVE sort_desc_from(_, _)
sort_desc_from(sorted, rest) ==
    IF rest = <<>> THEN sorted
    ELSE sort_desc_from(insert_desc(sorted, Head(rest)), Tail(rest))

sort_by_relevance(es) == sort_desc_from(<<>>, es)

\* the truncation left out
top_five_untruncated(es) == es

\* evidence_list[:5]
top_five(es) == SubSeq(es, 1, IF Len(es) < TopK THEN Len(es) ELSE TopK)

rank_evidence(evidence_results) == top_five(sort_by_relevance(not_none(evidence_results)))

(***************************************************************************)
(* source_retriever.retrieve_sources: the loop over response["results"]    *)
(***************************************************************************)
SearchResult(item) ==
    [url |-> Get(item.url), raw_content |-> item.raw_content, content |-> item.content,
     rel |-> item.rel, cls |-> item.cls, cmp |-> item.cmp]

\* the exclusion by equality of the two hostnames only
is_self_source_exact(hostname, excluded_host) ==
    /\ truthy(excluded_host)
    /\ lower(hostname) = Get(excluded_host)

\* excluded_host and hostname.lower().endswith(excluded_host)
is_self_source(hostname, excluded_host) ==
    /\ truthy(excluded_host)
    /\ endswith(lower(hostname), Get(excluded_host))

\* the loop without its inner try: the first malformed result ends it
RECURSIVE collect_results_abort(_, _, _, _)
collect_results_abort(items, seen_urls, excluded_host, results) ==
    IF items = <<>> THEN results
    ELSE LET item == Head(items)
             rest == Tail(items)
         IN  IF IsNone(item.url)
             THEN results
             ELSE LET url == Get(item.url)
                  IN  IF url \in seen_urls
                      THEN collect_results_abort(rest, seen_urls, excluded_host, results)
                      ELSE IF is_self_source(url.host, excluded_host)
                           THEN collect_results_abort(rest, seen_urls \cup {url},
                                                      excluded_host, results)
                           ELSE IF ~item.valid
                                THEN results
                                ELSE collect_results_abort(rest, seen_urls \cup {url},
                                                           excluded_host,
                                                           Append(results, SearchResult(item)))

RECURSIVE collect_results(_, _, _, _)
collect_results(items, seen_urls, excluded_host, results) ==
    IF items = <<>> THEN results
    ELSE LET item == Head(items)
             rest == Tail(items)
         IN  IF IsNone(item.url)
             THEN collect_results(rest, seen_urls, excluded_host, results)
             ELSE LET url == Get(item.url)
                  IN  IF url \in seen_urls
                      THEN collect_results(rest, seen_urls, excluded_host, results)
                      ELSE IF is_self_source(url.host, excluded_host) \/ ~item.valid
                           THEN collect_results(rest, seen_urls \cup {url}, excluded_host, results)
                           ELSE collect_results(rest, seen_urls \cup {url}, excluded_host,
                                                Append(results, SearchResult(item)))

(***************************************************************************)
(* attribution_assembler.find_best_source                                  *)
(***************************************************************************)
type_score(a) ==
    CASE a.evidence.source_type = "primary" -> 3
      [] a.evidence.source_type = "original_reporting" -> 2
      [] a.evidence.source_type = "secondary" -> 1
      [] OTHER -> 0

attr_score(a) ==
    CASE a.attribution = "direct" -> 2
      [] a.attribution = "paraphrase" -> 1
      [] OTHER -> 0

\* tuple comparison score(a) > score(b)
score_greater(a, b) ==
    \/ type_score(a) > type_score(b)
    \/ type_score(a) = type_score(b) /\ attr_score(a) > attr_score(b)

\* a maximum that is also replaced by an element of equal score
RECURSIVE max_from_last(_, _)
max_from_last(best, rest) ==
    IF rest = <<>> THEN best
    ELSE IF ~score_greater(best, Head(rest)) THEN max_from_last(Head(rest), Tail(rest))
    ELSE max_from_last(best, Tail(rest))

\* max(assessments, key=score): the running maximum is replaced only by a
\* strictly greater element
RECURSIVE max_from(_, _)
max_from(best, rest) ==
    IF rest = <<>> THEN best
    ELSE IF score_greater(Head(rest), best) THEN max_from(Head(rest), Tail(rest))
    ELSE max_from(best, Tail(rest))

\* a best source is named only when some source is primary
find_best_source_primary(assessments_) ==
    IF \A i \in DOMAIN assessments_ : assessments_[i].evidence.source_type # "primary"
    THEN None
    ELSE Some(max_from(Head(assessments_), Tail(assessments_)))

find_best_source(assessments_) ==
    IF assessments_ = <<>> THEN None
    ELSE Some(max_from(Head(assessments_), Tail(assessments_)))

(***************************************************************************)
(* State of one run                                                        *)
(***************************************************************************)
VARIABLES
    pc,                 \* node of the graph about to run, "END", or "raised"
    input_source_url,   \* hostname of the origin URL, or None
    extracted_claim,    \* GraphState fields
    extraction_failed,
    extraction_error,
    search_results,
    search_query,
    evidence,
    assessments,
    result,
    errors,
    rel_st,             \* evidence_filter: state of each relevance call
    cls_st,             \* evidence_filter: state of each classification call
    cmp_st,             \* source_comparer: state of each attribution call
    calls,              \* number of external calls issued, by kind
    trace,              \* nodes entered so far, in order
    llm_result,         \* assemble_attribution: what the synthesis call did, or None
    search_response,    \* retrieve_sources: response["results"] of the search, or None
    earlier_runs        \* run_source_check was called before on the singleton graph

vars == <<pc, input_source_url, extracted_claim, extraction_failed, extraction_error,
          search_results, search_query, evidence, assessments, result, errors,
          rel_st, cls_st, cmp_st, calls, trace, llm_result,
          search_response, earlier_runs>>

graph_state == <<extracted_claim, extraction_failed, extraction_error, search_results,
                 search_query, evidence, assessments, result, errors>>

NoCalls == [extraction |-> 0, search |-> 0, relevance |-> 0, classification |-> 0,
            comparison |-> 0, synthesis |-> 0]

\* run_source_check: initial_state
initial_state ==
    /\ extracted_claim = None
    /\ extraction_failed = FALSE
    /\ extraction_error = None
    /\ search_results = <<>>
    /\ search_query = None
    /\ evidence = <<>>
    /\ assessments = <<>>
    /\ result = None
    /\ errors = <<>>

\* the origin URL of a run, if one is supplied
OriginUrls == {None, Some(HostOrigin)}

Init ==
    /\ pc = "claim_extractor"
    /\ input_source_url \in OriginUrls
    /\ initial_state
    /\ rel_st = <<>>
    /\ cls_st = <<>>
    /\ cmp_st = <<>>
    /\ calls = NoCalls
    /\ trace = <<>>
    /\ llm_result = None
    /\ search_response = None
    /\ earlier_runs = FALSE

\* every call issued a second time after its first attempt
Called_with_retry(kind, n) == calls' = [calls EXCEPT ![kind] = @ + 2 * n]

Called(kind, n) == calls' = [calls EXCEPT ![kind] = @ + n]

Entered(node) == trace' = Append(trace, node)

(***************************************************************************)
(* claim_extractor.extract_claim and the conditional edge                  *)
(***************************************************************************)
TheClaim == [claim |-> "claim"]

\* what the extraction call does: a claim, a semantic failure with its
\* extraction_notes, or an exception (transport, JSON, missing or invalid field)
ExtractionOutcomes ==
    {[kind |-> "claim", text |-> None]}
    \cup {[kind |-> "failed", text |-> t] :
             t \in {None} \cup {Some(Text("notes", n)) : n \in TextLens}}
    \cup {[kind |-> "error", text |-> Some(Text("exception", n))] : n \in TextLens}

\* the conditional edge replaced by a plain edge to the retriever
should_continue_unconditional(failed) == "source_retriever"

should_continue_after_extraction(failed) ==
    IF failed THEN "attribution_assembler" ELSE "source_retriever"

\* the except branch returning without an entry in errors
extract_claim_unrecorded ==
    /\ pc = "claim_extractor"
    /\ \E o \in ExtractionOutcomes :
        /\ extracted_claim' = IF o.kind = "claim" THEN Some(TheClaim) ELSE None
        /\ extraction_failed' = (o.kind # "claim")
        /\ extraction_error' = o.text
        /\ pc' = should_continue_after_extraction(o.kind # "claim")
    /\ Called("extraction", 1)
    /\ Entered("claim_extractor")
    /\ UNCHANGED <<earlier_runs, search_response, llm_result, input_source_url,
                   search_results, search_query, evidence, assessments, result, errors,
                   rel_st, cls_st, cmp_st>>

extract_claim ==
    /\ pc = "claim_extractor"
    /\ \E o \in ExtractionOutcomes :
        /\ extracted_claim' = IF o.kind = "claim" THEN Some(TheClaim) ELSE None
        /\ extraction_failed' = (o.kind # "claim")
        /\ extraction_error' = o.text
        /\ errors' = IF o.kind = "error" THEN Append(errors, "Claim extraction") ELSE errors
        /\ pc' = should_continue_after_extraction(o.kind # "claim")
    /\ Called("extraction", 1)
    /\ Entered("claim_extractor")
    /\ UNCHANGED <<earlier_runs, search_response, llm_result, input_source_url,
                   search_results, search_query, evidence, assessments, result, rel_st,
                   cls_st, cmp_st>>

(***************************************************************************)
(* source_retriever.retrieve_sources                                       *)
(***************************************************************************)
\* the outer except branch recording the error and raising it again
retrieve_sources_reraising ==
    /\ pc = "source_retriever"
    /\ Entered("source_retriever")
    /\ IF IsNone(extracted_claim)
       THEN /\ search_results' = <<>>
            /\ search_query' = None
            /\ pc' = "evidence_filter"
            /\ UNCHANGED <<errors, calls, search_response>>
       ELSE /\ search_query' = Some(Get(extracted_claim).claim)
            /\ Called("search", 1)
            /\ \/ /\ search_results' = <<>>
                  /\ errors' = Append(errors, "Source retrieval")
                  /\ UNCHANGED search_response
                  /\ pc' = "raised"
               \/ /\ \E response \in ProviderResponses :
                        /\ search_response' = Some(response)
                        /\ search_results' = collect_results(response, {}, input_source_url, <<>>)
                  /\ pc' = "evidence_filter"
                  /\ UNCHANGED errors
    /\ UNCHANGED <<earlier_runs, llm_result, input_source_url, extracted_claim,
                   extraction_failed, extraction_error, evidence, assessments, result,
                   rel_st, cls_st, cmp_st>>

retrieve_sources ==
    /\ pc = "source_retriever"
    /\ Entered("source_retriever")
    /\ pc' = "evidence_filter"
    /\ IF IsNone(extracted_claim)
       THEN /\ search_results' = <<>>
            /\ search_query' = None
            /\ UNCHANGED <<errors, calls, search_response>>
       ELSE /\ search_query' = Some(Get(extracted_claim).claim)
            /\ Called("search", 1)
            /\ \/ /\ search_results' = <<>>
                  /\ errors' = Append(errors, "Source retrieval")
                  /\ UNCHANGED search_response
               \/ /\ \E response \in ProviderResponses :
                        /\ search_response' = Some(response)
                        /\ search_results' = collect_results(response, {}, input_source_url, <<>>)
                  /\ UNCHANGED errors
    /\ UNCHANGED <<earlier_runs, llm_result, input_source_url, extracted_claim,
                   extraction_failed, extraction_error, evidence, assessments, result,
                   rel_st, cls_st, cmp_st>>

(***************************************************************************)
(* evidence_filter.filter_evidence: one task per candidate, each awaiting  *)
(* its relevance call and its classification call                          *)
(***************************************************************************)
Pending(n) == [i \in 1..n |-> "pending"]

\* what a call that has returned hands to its awaiter: its result, or None
\* when it raised
call_result(st, response) == IF st = "ok" THEN Some(response) ELSE None

\* asyncio.gather(relevance_task, classification_task) inside one task: the
\* task resumes when both calls have returned or as soon as one has raised
task_settled(i) ==
    \/ rel_st[i] = "failed"
    \/ cls_st[i] = "failed"
    \/ rel_st[i] = "ok" /\ cls_st[i] = "ok"

task_result(i) ==
    IF rel_st[i] = "ok" /\ cls_st[i] = "ok"
    THEN assess_and_classify(search_results[i],
                             call_result(rel_st[i], search_results[i].rel),
                             call_result(cls_st[i], search_results[i].cls))
    ELSE None

\* asyncio.run cancels the calls still pending when the coroutine returns
after_run(st) == [i \in DOMAIN st |-> IF st[i] = "pending" THEN "cancelled" ELSE st[i]]

\* not claim or not results: no task is created
filter_evidence_empty ==
    /\ pc = "evidence_filter"
    /\ IsNone(extracted_claim) \/ search_results = <<>>
    /\ Entered("evidence_filter")
    /\ evidence' = <<>>
    /\ pc' = "source_comparer"
    /\ UNCHANGED <<earlier_runs, search_response, llm_result, input_source_url,
                   extracted_claim, extraction_failed, extraction_error, search_results,
                   search_query, assessments, result, errors, rel_st, cls_st, cmp_st,
                   calls>>

\* tasks = [...]; every task issues its two calls
filter_evidence_dispatch ==
    /\ pc = "evidence_filter"
    /\ ~IsNone(extracted_claim) /\ search_results # <<>>
    /\ Entered("evidence_filter")
    /\ rel_st' = Pending(Len(search_results))
    /\ cls_st' = Pending(Len(search_results))
    /\ calls' = [calls EXCEPT !.relevance = @ + Len(search_results),
                              !.classification = @ + Len(search_results)]
    /\ pc' = "evidence_filter.gather"
    /\ UNCHANGED <<earlier_runs, search_response, llm_result, input_source_url,
                   graph_state, cmp_st>>

relevance_returns(i) ==
    /\ pc = "evidence_filter.gather"
    /\ rel_st[i] = "pending"
    /\ rel_st' = [rel_st EXCEPT ![i] = IF search_results[i].rel.ok THEN "ok" ELSE "failed"]
    /\ UNCHANGED <<pc, earlier_runs, search_response, llm_result, input_source_url,
                   graph_state, cls_st, cmp_st, calls, trace>>

classification_returns(i) ==
    /\ pc = "evidence_filter.gather"
    /\ cls_st[i] = "pending"
    /\ cls_st' = [cls_st EXCEPT ![i] = IF search_results[i].cls.ok THEN "ok" ELSE "failed"]
    /\ UNCHANGED <<pc, earlier_runs, search_response, llm_result, input_source_url,
                   graph_state, rel_st, cmp_st, calls, trace>>

\* a join that returns as soon as one task has settled
gate_first_completed == \E i \in DOMAIN search_results : task_settled(i)

\* the condition under which await asyncio.gather(*tasks) returns
gate_gathered == \A i \in DOMAIN search_results : task_settled(i)

\* evidence_results = await asyncio.gather(*tasks), then filter, sort, truncate
filter_evidence_join ==
    /\ pc = "evidence_filter.gather"
    /\ gate_gathered
    /\ evidence' = rank_evidence([i \in DOMAIN search_results |-> task_result(i)])
    /\ rel_st' = after_run(rel_st)
    /\ cls_st' = after_run(cls_st)
    /\ pc' = "source_comparer"
    /\ UNCHANGED <<earlier_runs, search_response, llm_result, input_source_url,
                   extracted_claim, extraction_failed, extraction_error, search_results,
                   search_query, assessments, result, errors, cmp_st, calls, trace>>

(***************************************************************************)
(* source_comparer.compare_sources: one task and one call per evidence     *)
(***************************************************************************)
\* the candidate an evidence item was made from
candidate_of(e) == CHOOSE r \in Range(search_results) : r.url = e.source_url

EvidenceAssessment(e, response) == [evidence |-> e, attribution |-> response.attribution]

\* classify_source_attribution_async: an assessment, or None when the call raised
classify_source_attribution_async(e, st) ==
    IF st = "ok" THEN Some(EvidenceAssessment(e, candidate_of(e).cmp)) ELSE None

compare_sources_empty ==
    /\ pc = "source_comparer"
    /\ IsNone(extracted_claim) \/ evidence = <<>>
    /\ Entered("source_comparer")
    /\ assessments' = <<>>
    /\ pc' = "attribution_assembler"
    /\ UNCHANGED <<earlier_runs, search_response, llm_result, input_source_url,
                   extracted_claim, extraction_failed, extraction_error, search_results,
                   search_query, evidence, result, errors, rel_st, cls_st, cmp_st, calls>>

compare_sources_dispatch ==
    /\ pc = "source_comparer"
    /\ ~IsNone(extracted_claim) /\ evidence # <<>>
    /\ Entered("source_comparer")
    /\ cmp_st' = Pending(Len(evidence))
    /\ Called("comparison", Len(evidence))
    /\ pc' = "source_comparer.gather"
    /\ UNCHANGED <<earlier_runs, search_response, llm_result, input_source_url,
                   graph_state, rel_st, cls_st>>

attribution_returns(i) ==
    /\ pc = "source_comparer.gather"
    /\ cmp_st[i] = "pending"
    /\ cmp_st' = [cmp_st EXCEPT ![i] = IF candidate_of(evidence[i]).cmp.ok THEN "ok" ELSE "failed"]
    /\ UNCHANGED <<pc, earlier_runs, search_response, llm_result, input_source_url,
                   graph_state, rel_st, cls_st, calls, trace>>

\* a join that returns as soon as one attribution call has returned
comparer_first_completed == \E i \in DOMAIN evidence : cmp_st[i] # "pending"

\* the condition under which await asyncio.gather(*tasks) returns
comparer_gathered == \A i \in DOMAIN evidence : cmp_st[i] # "pending"

compare_sources_join ==
    /\ pc = "source_comparer.gather"
    /\ comparer_gathered
    /\ assessments' = not_none([i \in DOMAIN evidence |->
                                   classify_source_attribution_async(evidence[i], cmp_st[i])])
    /\ pc' = "attribution_assembler"
    /\ UNCHANGED <<earlier_runs, search_response, llm_result, input_source_url,
                   extracted_claim, extraction_failed, extraction_error, search_results,
                   search_query, evidence, result, errors, rel_st, cls_st, cmp_st, calls,
                   trace>>

(***************************************************************************)
(* attribution_assembler.assemble_attribution                              *)
(***************************************************************************)
SourceAttribution(c, a, s, l, b, r) ==
    [claim |-> c, attribution |-> a, summary |-> s, evidence_list |-> l,
     best_source |-> b, relies_on_secondary_only |-> r]

\* the field constraints pydantic checks when a SourceAttribution is built
validates(v) ==
    /\ v.attribution \in AttributionTypes
    /\ v.summary.len <= MaxSummaryLen
    /\ Len(v.evidence_list) <= MaxEvidenceList

\* any() in place of all(): one secondary source is enough
relies_on_secondary_any(assessments_) ==
    \E i \in DOMAIN assessments_ : assessments_[i].evidence.source_type = "secondary"

\* all(a.evidence.source_type == SourceType.SECONDARY for a in assessments)
relies_on_secondary(assessments_) ==
    \A i \in DOMAIN assessments_ : assessments_[i].evidence.source_type = "secondary"

\* what the synthesis call does: a JSON object with the three fields, or an
\* exception (transport, JSON, missing key, attribution outside the enum)
SynthesisOutcomes ==
    {[ok |-> FALSE, attribution |-> "not_found", summary_len |-> n, flag |-> FALSE] :
        n \in TextLens}
    \cup {[ok |-> TRUE, attribution |-> a, summary_len |-> n, flag |-> f] :
             a \in AttributionTypes, n \in {20, MaxSummaryLen, MaxSummaryLen + 1},
             f \in BOOLEAN}

\* length of str(e) for the ValidationError pydantic raises on an oversized
\* summary: the message quotes a truncated input, so it is short
ValidationErrorLens == {n \in TextLens : 0 < n /\ n <= MaxSummaryLen - AssemblyPrefixLen}

\* return {**state, "result": result, ...}, or the exception of a
\* SourceAttribution that does not validate leaving the node
returns(v, errs) ==
    IF validates(v)
    THEN /\ result' = Some(v)
         /\ errors' = errs
         /\ pc' = "END"
    ELSE /\ pc' = "raised"
         /\ UNCHANGED <<result, errors>>

\* the except branch: the not_found fallback built from str(e)
assembly_fallback(msg_len, best_source, relies) ==
    returns(SourceAttribution(Get(extracted_claim).claim, "not_found",
                              Text("assembly_error", AssemblyPrefixLen + msg_len),
                              assessments, best_source, relies),
            Append(errors, "Attribution assembly"))

assemble_failed ==
    /\ extraction_failed
    /\ returns(SourceAttribution("[No factual claim could be extracted]", "not_found",
                                 IF ~IsNone(extraction_error) /\ Get(extraction_error).len > 0
                                 THEN Get(extraction_error)
                                 ELSE Text("default", DefaultSummaryLen),
                                 <<>>, None, FALSE),
               errors)
    /\ UNCHANGED <<calls, llm_result>>

\* the last branch: secondary-only flag, best source, synthesis call
synthesize ==
    LET relies == relies_on_secondary(assessments)
        best_source == find_best_source(assessments)
    IN  IF IsNone(extracted_claim)
        THEN \* claim.claim raises in the try block and again in the except block
             /\ pc' = "raised"
             /\ UNCHANGED <<result, errors, calls, llm_result>>
        ELSE /\ Called("synthesis", 1)
             /\ \E o \in SynthesisOutcomes :
                   LET v == SourceAttribution(Get(extracted_claim).claim, o.attribution,
                                              Text("synthesis", o.summary_len), assessments,
                                              best_source, relies \/ o.flag)
                   IN  /\ llm_result' = Some(o)
                       /\ IF o.ok /\ validates(v)
                          THEN returns(v, errors)
                          ELSE IF ~o.ok
                               THEN assembly_fallback(o.summary_len, best_source, relies)
                               ELSE \E n \in ValidationErrorLens :
                                       assembly_fallback(n, best_source, relies)

\* the empty-list branch left out: the synthesis call is made with no source
assemble_no_sources_synthesized ==
    /\ ~extraction_failed
    /\ assessments = <<>>
    /\ synthesize

assemble_no_sources ==
    /\ ~extraction_failed
    /\ assessments = <<>>
    /\ returns(SourceAttribution(IF IsNone(extracted_claim) THEN "[Unknown]"
                                 ELSE Get(extracted_claim).claim,
                                 "not_found", Text("no_sources", NoSourcesSummaryLen),
                                 <<>>, None, FALSE),
               errors)
    /\ UNCHANGED <<calls, llm_result>>

assemble_synthesis ==
    /\ ~extraction_failed
    /\ assessments # <<>>
    /\ synthesize

assemble_attribution ==
    /\ pc = "attribution_assembler"
    /\ Entered("attribution_assembler")
    /\ \/ assemble_failed
       \/ assemble_no_sources
       \/ assemble_synthesis
    /\ UNCHANGED <<earlier_runs, search_response, input_source_url, extracted_claim,
                   extraction_failed, extraction_error, search_results, search_query,
                   evidence, assessments, rel_st, cls_st, cmp_st>>

(***************************************************************************)
(* graph.run_source_check: one run of the compiled graph                   *)
(***************************************************************************)
Next ==
    \/ extract_claim
    \/ retrieve_sources
    \/ filter_evidence_empty
    \/ filter_evidence_dispatch
    \/ \E i \in DOMAIN rel_st : relevance_returns(i)
    \/ \E i \in DOMAIN cls_st : classification_returns(i)
    \/ filter_evidence_join
    \/ compare_sources_empty
    \/ compare_sources_dispatch
    \/ \E i \in DOMAIN cmp_st : attribution_returns(i)
    \/ compare_sources_join
    \/ assemble_attribution

Spec == Init /\ [][Next]_vars

(***************************************************************************)
(* Several calls of run_source_check, one after the other, on the          *)
(* singleton graph: each call builds a new initial_state and invokes the   *)
(* graph compiled once, without checkpointer                               *)
(***************************************************************************)
\* a call whose initial_state shares the errors list of the call before it
run_source_check_shared_errors ==
    /\ pc \in {"END", "raised"}
    /\ earlier_runs' = TRUE
    /\ pc' = "claim_extractor"
    /\ input_source_url' \in OriginUrls
    /\ extracted_claim' = None
    /\ extraction_failed' = FALSE
    /\ extraction_error' = None
    /\ search_results' = <<>>
    /\ search_query' = None
    /\ evidence' = <<>>
    /\ assessments' = <<>>
    /\ result' = None
    /\ rel_st' = <<>>
    /\ cls_st' = <<>>
    /\ cmp_st' = <<>>
    /\ calls' = NoCalls
    /\ trace' = <<>>
    /\ llm_result' = None
    /\ search_response' = None
    /\ UNCHANGED errors

\* the next call, after the call before it has returned or raised: the
\* state dict is the literal of run_source_check, the locals of the nodes
\* (seen_urls, the tasks, llm_result) are created anew
run_source_check ==
    /\ pc \in {"END", "raised"}
    /\ earlier_runs' = TRUE
    /\ pc' = "claim_extractor"
    /\ input_source_url' \in OriginUrls
    /\ extracted_claim' = None
    /\ extraction_failed' = FALSE
    /\ extraction_error' = None
    /\ search_results' = <<>>
    /\ search_query' = None
    /\ evidence' = <<>>
    /\ assessments' = <<>>
    /\ result' = None
    /\ errors' = <<>>
    /\ rel_st' = <<>>
    /\ cls_st' = <<>>
    /\ cmp_st' = <<>>
    /\ calls' = NoCalls
    /\ trace' = <<>>
    /\ llm_result' = None
    /\ search_response' = None

NextRuns == Next \/ run_source_check

SpecRuns == Init /\ [][NextRuns]_vars

(***************************************************************************)
(* A run in which a per-item task may be cancelled while in flight.        *)
(* CancelledError is a BaseException: the except Exception branch of the   *)
(* task does not catch it, gather hands it to the awaiting coroutine,      *)
(* which has no handler, and asyncio.run cancels what is left and raises   *)
(***************************************************************************)
\* the calls of task i are cancelled with it, the other pending calls by asyncio.run
cancelled_with(st, i) ==
    [k \in DOMAIN st |-> IF st[k] # "pending" THEN st[k]
                         ELSE IF k = i THEN "task_cancelled" ELSE "cancelled"]

gate_task_cancelled(i) ==
    /\ pc = "evidence_filter.gather"
    /\ ~task_settled(i)
    /\ rel_st' = cancelled_with(rel_st, i)
    /\ cls_st' = cancelled_with(cls_st, i)
    /\ pc' = "raised"
    /\ UNCHANGED <<earlier_runs, search_response, llm_result, input_source_url,
                   graph_state, cmp_st, calls, trace>>

comparer_task_cancelled(i) ==
    /\ pc = "source_comparer.gather"
    /\ cmp_st[i] = "pending"
    /\ cmp_st' = cancelled_with(cmp_st, i)
    /\ pc' = "raised"
    /\ UNCHANGED <<earlier_runs, search_response, llm_result, input_source_url,
                   graph_state, rel_st, cls_st, calls, trace>>

NextCancel ==
    \/ Next
    \/ \E i \in DOMAIN rel_st : gate_task_cancelled(i)
    \/ \E i \in DOMAIN cmp_st : comparer_task_cancelled(i)

SpecCancel == Init /\ [][NextCancel]_vars

(***************************************************************************)
(* The assembler on its own, as the unit tests call it: any assessment     *)
(* list the comparer can hand over, with or without a failed extraction    *)
(***************************************************************************)
Assessment(i, t, a) ==
    [evidence |-> [source_url |-> Url(i, HostOther), source_type |-> t,
                   verbatim_quote |-> QuoteExact, relevance_score |-> 90],
     attribution |-> a]

AssessmentLists ==
    UNION { { [i \in 1..n |-> Assessment(i, ta[i][1], ta[i][2])] :
                ta \in [1..n -> SourceTypes \X SourceAttributions] } :
            n \in 0..MaxAssessments }

InitAssembler ==
    /\ pc = "attribution_assembler"
    /\ input_source_url = None
    /\ \E o \in ExtractionOutcomes :
          /\ extracted_claim = IF o.kind = "claim" THEN Some(TheClaim) ELSE None
          /\ extraction_failed = (o.kind # "claim")
          /\ extraction_error = o.text
          /\ errors = IF o.kind = "error" THEN <<"Claim extraction">> ELSE <<>>
    /\ search_results = <<>>
    /\ search_query = None
    /\ evidence = <<>>
    /\ assessments \in AssessmentLists
    /\ result = None
    /\ rel_st = <<>>
    /\ cls_st = <<>>
    /\ cmp_st = <<>>
    /\ calls = NoCalls
    /\ trace = <<>>
    /\ llm_result = None
    /\ search_response = None
    /\ earlier_runs = FALSE

NextAssembler == assemble_attribution

SpecAssembler == InitAssembler /\ [][NextAssembler]_vars

(***************************************************************************)
(* The join of the evidence gate on its own: every gathered result list    *)
(* over three scores, every call having returned                           *)
(***************************************************************************)
RankScores == {50, 70, 90}

RankItem(i, rel) ==
    Item(Some(Url(i, HostOther)), TRUE, None, ContentMain, rel, Cls(TypeOf(i)), Cmp(AttrOf(i)))

RankResponses == {RelFailed} \cup {Rel(TRUE, s, Some(QuoteExact)) : s \in RankScores}

InitRank ==
    /\ pc = "evidence_filter.gather"
    /\ input_source_url = None
    /\ extracted_claim = Some(TheClaim)
    /\ extraction_failed = FALSE
    /\ extraction_error = None
    /\ \E n \in 1..MaxGathered : \E rels \in [1..n -> RankResponses] :
          /\ search_results = [i \in 1..n |-> SearchResult(RankItem(i, rels[i]))]
          /\ rel_st = [i \in 1..n |-> IF rels[i].ok THEN "ok" ELSE "failed"]
          /\ cls_st = [i \in 1..n |-> "ok"]
          /\ calls = [NoCalls EXCEPT !.extraction = 1, !.search = 1,
                                     !.relevance = n, !.classification = n]
    /\ search_query = Some(TheClaim.claim)
    /\ evidence = <<>>
    /\ assessments = <<>>
    /\ result = None
    /\ errors = <<>>
    /\ cmp_st = <<>>
    /\ trace = <<"claim_extractor", "source_retriever", "evidence_filter">>
    /\ llm_result = None
    /\ search_response = None
    /\ earlier_runs = FALSE

NextRank == filter_evidence_join

SpecRank == InitRank /\ [][NextRank]_vars

(***************************************************************************)
(* Properties                                                              *)
(***************************************************************************)
FailPath == <<"claim_extractor", "attribution_assembler">>

FullPath == <<"claim_extractor", "source_retriever", "evidence_filter",
              "source_comparer", "attribution_assembler">>

IsPrefix(p, q) == Len(p) <= Len(q) /\ SubSeq(q, 1, Len(p)) = p

Ran(node) == \E k \in DOMAIN trace : trace[k] = node

Finished == pc \in {"END", "raised"}

WellFormedVerdict(v) ==
    /\ v.attribution \in AttributionTypes
    /\ v.summary.len <= MaxSummaryLen
    /\ Len(v.evidence_list) <= MaxEvidenceList
    /\ v.relies_on_secondary_only \in BOOLEAN

\* C1: run_source_check never raises and the state it returns carries a
\* well-formed Verdict, whatever the external calls did (claim, semantic
\* failure with notes of any length, exception with a message of any length,
\* oversized or invalid synthesis response).
C1_NeverRaisesAndReturnsVerdict ==
    /\ pc # "raised"
    /\ pc = "END" => ~IsNone(result) /\ WellFormedVerdict(Get(result))

\* C2: whenever the assembler has run with extraction_failed true, there is
\* a Verdict and it has relation not_found, no assessments, no best source
\* and relies_on_secondary_only false, whatever the assessments in the
\* state, and no synthesis call was made.
C2_FailedExtractionVerdict ==
    (Ran("attribution_assembler") /\ extraction_failed) =>
        /\ ~IsNone(result)
        /\ Get(result).attribution = "not_found"
        /\ Get(result).evidence_list = <<>>
        /\ IsNone(Get(result).best_source)
        /\ Get(result).relies_on_secondary_only = FALSE
        /\ calls.synthesis = 0

\* C3: the nodes run in the fixed order extractor, retriever, gate,
\* comparer, assembler, each at most once; after a failed extraction the run
\* goes straight to the assembler and issues no search and no per-item call;
\* otherwise a finished run has entered all five nodes exactly once.
C3_StageOrder ==
    /\ IsPrefix(trace, FailPath) \/ IsPrefix(trace, FullPath)
    /\ (Ran("claim_extractor") /\ extraction_failed) =>
          /\ IsPrefix(trace, FailPath)
          /\ calls.search = 0 /\ calls.relevance = 0
          /\ calls.classification = 0 /\ calls.comparison = 0
    /\ (Ran("claim_extractor") /\ ~extraction_failed) => IsPrefix(trace, FullPath)
    /\ Finished => trace = (IF extraction_failed THEN FailPath ELSE FullPath)

\* a finished run that took the failure branch
C3_Witness ==
    /\ pc = "END"
    /\ extraction_failed
    /\ trace = FailPath
    /\ ~IsNone(result)

\* the gate has produced its evidence list
GateDone == Ran("evidence_filter") /\ pc # "evidence_filter.gather"

\* the comparer has produced its assessment list
ComparerDone == Ran("source_comparer") /\ pc # "source_comparer.gather"

Min(a, b) == IF a < b THEN a ELSE b

NonIncreasing(scores) ==
    \A i, j \in DOMAIN scores : i < j => scores[i] >= scores[j]

EvidenceScores(es) == [k \in DOMAIN es |-> es[k].relevance_score]

AssessmentScores(as) == [k \in DOMAIN as |-> as[k].evidence.relevance_score]

\* C4: the evidence list, the assessment list and the Verdict's assessment
\* list each have at most 5 entries and are in non-increasing order of
\* relevance_score, in every state of every run.
C4_BoundedAndSorted ==
    /\ Len(evidence) <= 5
    /\ NonIncreasing(EvidenceScores(evidence))
    /\ Len(assessments) <= 5
    /\ NonIncreasing(AssessmentScores(assessments))
    /\ ~IsNone(result) =>
          /\ Len(Get(result).evidence_list) <= 5
          /\ NonIncreasing(AssessmentScores(Get(result).evidence_list))

\* more than five candidates in ascending order of score, all admitted: the
\* Verdict carries five of them, reordered
C4_Witness ==
    /\ pc = "END"
    /\ ~IsNone(result)
    /\ Len(search_results) > 5
    /\ search_results[1].rel.relevance_score < search_results[Len(search_results)].rel.relevance_score
    /\ Len(Get(result).evidence_list) = 5
    /\ Get(result).evidence_list[1].evidence.relevance_score
          > Get(result).evidence_list[5].evidence.relevance_score

\* the text a quote is judged against: raw_content if present, else content
ContentOf(r) == IF truthy(r.raw_content) THEN Get(r.raw_content) ELSE r.content

\* share of the tokens of q found among the tokens of text is at least 60%
TokenOverlapOk(q, text) ==
    LET qt == split(lower(q))
        ct == Range(split(lower(text)))
    IN  /\ qt # <<>>
        /\ 100 * Cardinality({i \in DOMAIN qt : qt[i] \in ct}) >= 60 * Len(qt)

\* C5: the verbatim quote of every Evidence item is a case-insensitive
\* substring of its candidate's content or has at least 60% token overlap
\* with it.
C5_QuoteSubstantiated ==
    \A k \in DOMAIN evidence :
        LET q == evidence[k].verbatim_quote
            text == ContentOf(candidate_of(evidence[k]))
        IN  contains(lower(text), lower(q)) \/ TokenOverlapOk(q, text)

\* the quote as the integrity check sees it: stripped of surrounding whitespace
IntegrityOk(q, text) ==
    contains(lower(text), lower(strip(q))) \/ TokenOverlapOk(strip(q), text)

\* C6: every Evidence item comes from a candidate judged relevant, with
\* relevance_score >= 0.5 and a non-empty quote that passed the integrity
\* check; and a candidate with a score of exactly 0.5 that meets the other
\* conditions is admitted (it is in the evidence when at most five
\* candidates compete).
C6_AdmissionRule ==
    /\ \A k \in DOMAIN evidence :
          LET e == evidence[k]
              r == candidate_of(e)
          IN  /\ r.rel.ok /\ r.cls.ok
              /\ r.rel.is_relevant
              /\ e.relevance_score = r.rel.relevance_score
              /\ e.relevance_score >= 50
              /\ truthy(r.rel.verbatim_quote)
              /\ e.verbatim_quote = Get(r.rel.verbatim_quote)
              /\ IntegrityOk(e.verbatim_quote, ContentOf(r))
    /\ (GateDone /\ Len(search_results) <= 5) =>
          \A i \in DOMAIN search_results :
              LET r == search_results[i]
              IN  ( /\ r.rel.ok /\ r.cls.ok
                    /\ r.rel.is_relevant
                    /\ r.rel.relevance_score = 50
                    /\ truthy(r.rel.verbatim_quote)
                    /\ IntegrityOk(Get(r.rel.verbatim_quote), ContentOf(r))
                    /\ Len(Get(r.rel.verbatim_quote)) >= 10 )
                  => \E k \in DOMAIN evidence : evidence[k].source_url = r.url

\* an Evidence item with a score of exactly 0.5
C6_Witness ==
    /\ GateDone
    /\ \E k \in DOMAIN evidence : evidence[k].relevance_score = 50

\* candidates whose task returned an Evidence
Admitted == {i \in DOMAIN search_results : ~IsNone(task_result(i))}

\* candidate i ranks before candidate j: higher score, or equal score and
\* earlier in the candidate list
RanksBefore(i, j) ==
    LET si == search_results[i].rel.relevance_score
        sj == search_results[j].rel.relevance_score
    IN  si > sj \/ (si = sj /\ i < j)

RankOf(i) == 1 + Cardinality({j \in Admitted : RanksBefore(j, i)})

\* C7: with N admitted candidates the evidence list is exactly the
\* min(N,5) admitted items that rank first by descending score, ties in
\* candidate order, each at the position of its rank.
C7_TopFiveStable ==
    GateDone =>
        /\ Len(evidence) = Min(Cardinality(Admitted), 5)
        /\ \A i \in Admitted :
              RankOf(i) <= 5 => evidence[RankOf(i)] = Get(task_result(i))

\* more than five admitted, and one left out has the score of the last kept
C7_Witness ==
    /\ GateDone
    /\ Len(evidence) = 5
    /\ \E i \in Admitted :
          /\ RankOf(i) > 5
          /\ search_results[i].rel.relevance_score = evidence[5].relevance_score

\* what the two calls for candidate r yield, by the service's responses alone
ExpectedResult(r) ==
    IF r.rel.ok /\ r.cls.ok THEN assess_and_classify(r, Some(r.rel), Some(r.cls)) ELSE None

ExpectedEvidence ==
    rank_evidence([i \in DOMAIN search_results |-> ExpectedResult(search_results[i])])

ExpectedAssessmentsOf(ev) ==
    not_none([k \in DOMAIN ev |->
                 LET e == ev[k]
                 IN  IF candidate_of(e).cmp.ok
                     THEN Some(EvidenceAssessment(e, candidate_of(e).cmp))
                     ELSE None])

ExpectedAssessments == ExpectedAssessmentsOf(ExpectedEvidence)

\* C8: the evidence list and the assessment list are determined by the
\* candidates and the service's per-item responses alone: they are the same
\* whatever the order in which the per-item calls return.
C8_OrderIndependent ==
    /\ GateDone => evidence = ExpectedEvidence
    /\ ComparerDone => assessments = ExpectedAssessments

\* the comparer's call for the second evidence item has returned while the
\* call for the first is still pending, after a gate in which a call was
\* still pending when its task settled
C8_Witness ==
    /\ pc = "source_comparer.gather"
    /\ Len(evidence) >= 2
    /\ cmp_st[1] = "pending"
    /\ cmp_st[2] = "ok"
    /\ \E i \in DOMAIN rel_st : rel_st[i] = "cancelled" \/ cls_st[i] = "cancelled"

\* C9: when extraction succeeded and the assessment list is empty, the
\* assembler returns the not_found Verdict with the fixed summary, no
\* assessments and no best source, and makes no synthesis call.
C9_NoSourcesVerdict ==
    (Ran("attribution_assembler") /\ ~extraction_failed /\ assessments = <<>>) =>
        /\ pc = "END"
        /\ ~IsNone(result)
        /\ Get(result).attribution = "not_found"
        /\ Get(result).summary = Text("no_sources", NoSourcesSummaryLen)
        /\ Get(result).evidence_list = <<>>
        /\ IsNone(Get(result).best_source)
        /\ calls.synthesis = 0

\* sources were retrieved, none became an assessment
C9_Witness ==
    /\ pc = "END"
    /\ ~extraction_failed
    /\ search_results # <<>>
    /\ assessments = <<>>
    /\ ~IsNone(result)

TypeRank(t) ==
    CASE t = "primary" -> 3 [] t = "original_reporting" -> 2
      [] t = "secondary" -> 1 [] t = "unknown" -> 0

RelationRank(a) ==
    CASE a = "direct" -> 2 [] a = "paraphrase" -> 1 [] a = "contradiction" -> 0

\* (typeScore, relationScore) of a is lexicographically smaller than that of b
PairLess(a, b) ==
    \/ TypeRank(a.evidence.source_type) < TypeRank(b.evidence.source_type)
    \/ /\ TypeRank(a.evidence.source_type) = TypeRank(b.evidence.source_type)
       /\ RelationRank(a.attribution) < RelationRank(b.attribution)

\* C10: the best source of a non-empty assessment list is the assessment
\* with the lexicographically greatest (typeScore, relationScore) pair, the
\* first in list order among those with that pair.
C10_BestSourceIsFirstMaximum ==
    (~IsNone(result) /\ Get(result).evidence_list # <<>>) =>
        LET l == Get(result).evidence_list
        IN  \E k \in DOMAIN l :
               /\ Get(result).best_source = Some(l[k])
               /\ \A j \in DOMAIN l : ~PairLess(l[k], l[j])
               /\ \A j \in DOMAIN l : j < k => PairLess(l[j], l[k])

\* a secondary/paraphrase item followed by two primary/direct items: the
\* first of the two is the best source
C10_Witness ==
    /\ ~IsNone(result)
    /\ Len(Get(result).evidence_list) = 3
    /\ LET l == Get(result).evidence_list
       IN  /\ l[1].evidence.source_type = "secondary" /\ l[1].attribution = "paraphrase"
           /\ l[2].evidence.source_type = "primary" /\ l[2].attribution = "direct"
           /\ l[3].evidence.source_type = "primary" /\ l[3].attribution = "direct"
           /\ Get(result).best_source = Some(l[2])

(***************************************************************************)
(* The secondary-only flag and the fallback of the assembler               *)
(***************************************************************************)
AllSecondary(l) == ~\E k \in DOMAIN l : l[k].evidence.source_type # "secondary"

\* the synthesis step succeeded: it returned a response the Verdict is built from
SynthesisSucceeded ==
    /\ ~IsNone(llm_result)
    /\ Get(llm_result).ok
    /\ Get(llm_result).summary_len <= MaxSummaryLen

\* the synthesis step failed: the call raised, or its response was rejected
SynthesisFailed == ~IsNone(llm_result) /\ ~SynthesisSucceeded

\* C11: with a non-empty assessment list, the Verdict's
\* relies_on_secondary_only is (every assessment's evidence is secondary) OR
\* the flag of the synthesis response when synthesis succeeded, and is
\* (every assessment's evidence is secondary) alone when synthesis failed.
C11_SecondaryOnlyFlag ==
    (~IsNone(result) /\ assessments # <<>> /\ ~IsNone(llm_result)) =>
        /\ SynthesisSucceeded =>
              Get(result).relies_on_secondary_only =
                  (AllSecondary(assessments) \/ Get(llm_result).flag)
        /\ SynthesisFailed =>
              Get(result).relies_on_secondary_only = AllSecondary(assessments)

\* a primary and a secondary source, the synthesis response raising the flag
C11_Witness ==
    /\ ~IsNone(result)
    /\ SynthesisSucceeded
    /\ Len(assessments) = 2
    /\ assessments[1].evidence.source_type = "primary"
    /\ assessments[2].evidence.source_type = "secondary"
    /\ Get(llm_result).flag
    /\ Get(result).relies_on_secondary_only

\* C12: when the synthesis call has raised on a non-empty assessment list,
\* the assembler returns a Verdict with relation not_found and the
\* explanatory summary, carrying the whole assessment list, the computed best
\* source and the locally computed secondary-only flag, and exactly one entry
\* has been appended to errors.
C12_SynthesisFallback ==
    (Ran("attribution_assembler") /\ assessments # <<>>
        /\ ~IsNone(llm_result) /\ ~Get(llm_result).ok) =>
        /\ pc = "END"
        /\ ~IsNone(result)
        /\ Get(result).attribution = "not_found"
        /\ Get(result).summary.kind = "assembly_error"
        /\ Get(result).evidence_list = assessments
        /\ Get(result).best_source = find_best_source(assessments)
        /\ Get(result).relies_on_secondary_only = AllSecondary(assessments)
        /\ errors = <<"Attribution assembly">>

(***************************************************************************)
(* Failures of the extraction call and of the search request               *)
(***************************************************************************)
\* the extraction call raised: extraction_error holds str(e)
ExtractionRaised == ~IsNone(extraction_error) /\ Get(extraction_error).kind = "exception"

\* C13: once the extractor has run, extraction_failed is false exactly when
\* extracted_claim is not None. An extraction call that raised leaves
\* extraction_failed true, extracted_claim None and the error text in
\* extraction_error, routes the run to the assembler without any search as a
\* semantic failure does, and has appended exactly one entry to errors; a
\* semantic failure has appended none.
C13_ExtractionFailureRouting ==
    Ran("claim_extractor") =>
        /\ extraction_failed = IsNone(extracted_claim)
        /\ extraction_failed =>
              /\ pc = "attribution_assembler" \/ trace = FailPath
              /\ calls.search = 0
        /\ ExtractionRaised =>
              /\ extraction_failed
              /\ errors = <<"Claim extraction">>
        /\ (extraction_failed /\ ~ExtractionRaised) => errors = <<>>

\* the call raised and the run is about to enter the assembler
C13_Witness ==
    /\ pc = "attribution_assembler"
    /\ trace = <<"claim_extractor">>
    /\ ExtractionRaised
    /\ extraction_failed
    /\ IsNone(extracted_claim)
    /\ errors = <<"Claim extraction">>

\* the search request raised
SearchFailed == \E k \in DOMAIN errors : errors[k] = "Source retrieval"

\* C14: when the search request has failed, the candidate list is empty and
\* errors holds that one entry; the run goes on through the gate and the
\* comparer, which issue no per-item call and leave evidence and assessments
\* empty, never raises or stops before END, and at END carries a not_found
\* Verdict with no assessments.
C14_SearchFailureContinues ==
    SearchFailed =>
        /\ errors = <<"Source retrieval">>
        /\ search_results = <<>>
        /\ evidence = <<>>
        /\ assessments = <<>>
        /\ calls.relevance = 0 /\ calls.classification = 0 /\ calls.comparison = 0
        /\ calls.synthesis = 0
        /\ pc \in {"evidence_filter", "source_comparer", "attribution_assembler", "END"}
        /\ IsPrefix(trace, FullPath)
        /\ pc # "END" => ENABLED Next
        /\ pc = "END" =>
              /\ trace = FullPath
              /\ ~IsNone(result)
              /\ Get(result).attribution = "not_found"
              /\ Get(result).evidence_list = <<>>

\* the run of a failed search has ended
C14_Witness ==
    /\ SearchFailed
    /\ pc = "END"
    /\ trace = FullPath
    /\ ~IsNone(result)
    /\ Get(result).attribution = "not_found"

(***************************************************************************)
(* The candidate list against the provider's response                      *)
(***************************************************************************)
\* the result has a url and passes the validation of SearchResult
WellFormed(item) == ~IsNone(item.url) /\ item.valid

\* the url string of result k already occurred earlier in the response
DuplicateAt(resp, k) == \E j \in 1..(k - 1) : resp[j].url = resp[k].url

\* result k is dropped by the self-source rule of the run
ExcludedAt(resp, k) ==
    ~IsNone(resp[k].url) /\ is_self_source(Get(resp[k].url).host, input_source_url)

\* the positions of the response a candidate is expected from, ascending
KeptPositions(resp) ==
    SelectSeq([k \in 1..Len(resp) |-> k],
              LAMBDA k : WellFormed(resp[k]) /\ ~DuplicateAt(resp, k) /\ ~ExcludedAt(resp, k))

EndsWithHost(h, o) ==
    \E n \in 0..Len(h) : SubSeq(lower(h), n + 1, Len(h)) = o

\* h is o itself or a subdomain of o
SameSite(h, o) == lower(h) = o \/ EndsWithHost(h, <<".">> \o o)

\* the urls of the candidate list
CandidateUrls == {search_results[i].url : i \in DOMAIN search_results}

\* C16 as stated: with an origin URL, a well-formed, non-duplicate result
\* is dropped exactly when its hostname is the origin's hostname or a
\* suffix of the origin's hostname.
C16_DropsSuffixesOfOrigin ==
    (~IsNone(search_response) /\ ~IsNone(input_source_url)) =>
        LET resp == Get(search_response)
        IN  \A k \in DOMAIN resp :
               (WellFormed(resp[k]) /\ ~DuplicateAt(resp, k)) =>
                   (Get(resp[k].url) \notin CandidateUrls
                       <=> EndsWithHost(Get(input_source_url), lower(Get(resp[k].url).host)))

\* C16 amended: with an origin URL, every result whose hostname is the
\* origin's hostname or a subdomain of it is dropped, and every well-formed,
\* non-duplicate result whose hostname does not end with the origin's
\* hostname is kept, a result whose hostname is a proper suffix of the
\* origin's hostname included.
C16_SelfSourceExclusion ==
    (~IsNone(search_response) /\ ~IsNone(input_source_url)) =>
        LET resp == Get(search_response)
            origin == Get(input_source_url)
        IN  \A k \in DOMAIN resp :
               ~IsNone(resp[k].url) =>
                   LET url == Get(resp[k].url)
                   IN  /\ SameSite(url.host, origin) => url \notin CandidateUrls
                       /\ (WellFormed(resp[k]) /\ ~DuplicateAt(resp, k)
                             /\ ~EndsWithHost(url.host, origin)) => url \in CandidateUrls

\* origin b.c: the result on a.b.c is dropped, the result on c is kept
C16_Witness ==
    /\ input_source_url = Some(HostOrigin)
    /\ ~IsNone(search_response)
    /\ Len(Get(search_response)) = 2
    /\ Get(search_response)[1].url = Some(Url(3, HostSub))
    /\ Get(search_response)[2].url = Some(Url(5, HostTail))
    /\ CandidateUrls = {Url(5, HostTail)}

(***************************************************************************)
(* The comparer's output against its input                                 *)
(***************************************************************************)
\* the positions of the evidence list whose attribution call succeeded, ascending
SucceededPositions ==
    SelectSeq([k \in 1..Len(evidence) |-> k], LAMBDA k : cmp_st[k] = "ok")

\* C17: the assessment list is the evidence list without the items whose
\* attribution call failed, in the same order: one assessment per item whose
\* call succeeded, holding that item's own evidence and the attribution the
\* call returned for it, whatever happened to the other items.
C17_AssessmentsSubsequence ==
    (ComparerDone /\ evidence # <<>>) =>
        /\ DOMAIN cmp_st = DOMAIN evidence
        /\ \A k \in DOMAIN cmp_st : cmp_st[k] \in {"ok", "failed"}
        /\ Len(assessments) = Len(SucceededPositions)
        /\ \A i \in DOMAIN assessments :
              /\ assessments[i].evidence = evidence[SucceededPositions[i]]
              /\ assessments[i].attribution =
                     candidate_of(evidence[SucceededPositions[i]]).cmp.attribution

\* the first item's call failed, the second item's succeeded and is kept
C17_Witness ==
    /\ ComparerDone
    /\ Len(evidence) = 2
    /\ cmp_st = <<"failed", "ok">>
    /\ Len(assessments) = 1
    /\ assessments[1].evidence = evidence[2]

(***************************************************************************)
(* A run as a function of its own inputs and responses                     *)
(***************************************************************************)
\* the state a call of run_source_check starts from
StartsFresh ==
    /\ initial_state
    /\ rel_st = <<>> /\ cls_st = <<>> /\ cmp_st = <<>>
    /\ IsNone(search_response) /\ IsNone(llm_result)

\* the search request of this run raised
SearchRaised == Ran("source_retriever") /\ ~IsNone(extracted_claim) /\ IsNone(search_response)

\* the candidates of this run's response, deduplicated among themselves only
OwnCandidates ==
    IF IsNone(search_response) THEN <<>>
    ELSE LET resp == Get(search_response)
             kept == KeptPositions(resp)
         IN  [i \in 1..Len(kept) |-> SearchResult(resp[kept[i]])]

\* the errors this run's own failures account for, in node order
OwnErrors ==
    (IF ExtractionRaised THEN <<"Claim extraction">> ELSE <<>>)
    \o (IF SearchRaised THEN <<"Source retrieval">> ELSE <<>>)
    \o (IF pc = "END" /\ SynthesisFailed THEN <<"Attribution assembly">> ELSE <<>>)

\* the Verdict of this run over the assessments own, but for the text of
\* its summary
OwnVerdict(v, own) ==
    IF extraction_failed \/ own = <<>>
    THEN /\ v.attribution = "not_found"
         /\ v.evidence_list = <<>>
         /\ IsNone(v.best_source)
         /\ v.relies_on_secondary_only = FALSE
    ELSE /\ v.attribution = IF SynthesisSucceeded THEN Get(llm_result).attribution
                            ELSE "not_found"
         /\ v.evidence_list = own
         /\ v.best_source = find_best_source(own)
         /\ v.relies_on_secondary_only =
               (AllSecondary(own)
                   \/ (SynthesisSucceeded /\ Get(llm_result).flag))

\* C18: whether or not run_source_check was called before on the singleton
\* graph, a run starts from the literal initial state with nothing of the
\* earlier run in it, and its candidates, evidence, assessments, errors and
\* Verdict are those its own origin URL and its own service responses
\* determine: no seen url, error or evidence of an earlier run is in them.
C18_RunsIndependent ==
    /\ pc = "claim_extractor" => StartsFresh
    /\ search_results = OwnCandidates
    /\ LET own_evidence == IF GateDone THEN ExpectedEvidence ELSE <<>>
           own_assessments == IF ComparerDone THEN ExpectedAssessmentsOf(own_evidence)
                              ELSE <<>>
       IN  /\ evidence = own_evidence
           /\ assessments = own_assessments
           /\ ~IsNone(result) => OwnVerdict(Get(result), own_assessments)
    /\ errors = OwnErrors

\* a later run has ended with a Verdict over assessed sources, the search
\* having returned a url twice
C18_Witness ==
    /\ earlier_runs
    /\ pc = "END"
    /\ ~IsNone(result)
    /\ Get(result).evidence_list # <<>>
    /\ ~IsNone(search_response)
    /\ Len(Get(search_response)) = 2
    /\ DuplicateAt(Get(search_response), 2)

(***************************************************************************)
(* The fan-out of the gate and of the comparer                             *)
(***************************************************************************)
\* the gate's task for candidate i has returned: both calls returned, or one raised
GateTaskSettled(i) ==
    \/ rel_st[i] = "ok" /\ cls_st[i] = "ok"
    \/ rel_st[i] = "failed"
    \/ cls_st[i] = "failed"

\* the comparer's task for evidence item i has returned
ComparerTaskSettled(i) == cmp_st[i] \in {"ok", "failed"}

\* C19: while a task of the gate is unsettled the evidence list is not
\* computed and the comparer has not started; while a task of the comparer is
\* unsettled the assessment list is not computed and the assembler has not
\* started. Once a stage has completed, every task it dispatched has settled.
C19_StagesAwaitEveryTask ==
    /\ (\E i \in DOMAIN rel_st : ~GateTaskSettled(i)) =>
          /\ pc = "evidence_filter.gather"
          /\ evidence = <<>>
          /\ ~Ran("source_comparer")
    /\ (\E i \in DOMAIN cmp_st : ~ComparerTaskSettled(i)) =>
          /\ pc = "source_comparer.gather"
          /\ assessments = <<>>
          /\ ~Ran("attribution_assembler")
    /\ GateDone => DOMAIN rel_st = DOMAIN search_results /\ DOMAIN cls_st = DOMAIN search_results
    /\ ComparerDone => DOMAIN cmp_st = DOMAIN evidence

\* the gate has completed over a failed and a succeeded task; the comparer
\* is waiting for its first task while its second has settled
C19_Witness ==
    /\ pc = "source_comparer.gather"
    /\ \E i \in DOMAIN rel_st : rel_st[i] = "failed" \/ cls_st[i] = "failed"
    /\ Len(evidence) >= 2
    /\ ~ComparerTaskSettled(1)
    /\ ComparerTaskSettled(2)
    /\ assessments = <<>>

\* tasks of the gate that have been dispatched and have not settled
GateInFlight == Cardinality({i \in DOMAIN rel_st : ~GateTaskSettled(i)})

\* tasks of the comparer that have been dispatched and have not settled
ComparerInFlight == Cardinality({i \in DOMAIN cmp_st : ~ComparerTaskSettled(i)})

\* a cap that does not follow the length of the candidate list: it is below
\* the longest list the provider returns here
ConcurrencyCap == MaxWide - 1

\* C20: the number of per-item tasks in flight at once, in the gate and in
\* the comparer, never exceeds a cap fixed independently of the number of
\* candidates and evidence items.
C20_BoundedFanOut ==
    /\ GateInFlight <= ConcurrencyCap
    /\ ComparerInFlight <= ConcurrencyCap

(***************************************************************************)
(* Cancellation, the errors list, retries                                  *)
(***************************************************************************)
\* a task of the gate or of the comparer was cancelled while in flight
TaskCancelled ==
    \/ \E i \in DOMAIN rel_st : rel_st[i] = "task_cancelled" \/ cls_st[i] = "task_cancelled"
    \/ \E i \in DOMAIN cmp_st : cmp_st[i] = "task_cancelled"

\* C21: when a per-item task of the gate or of the comparer has been
\* cancelled while in flight, the run does not raise: the stage goes on to
\* return its list and a run that has ended carries a Verdict.
C21_CancelledItemDropped ==
    TaskCancelled =>
        /\ pc # "raised"
        /\ Finished => ~IsNone(result)

\* some per-item call of the gate or of the comparer raised
PerItemCallFailed ==
    \/ \E i \in DOMAIN rel_st : rel_st[i] = "failed" \/ cls_st[i] = "failed"
    \/ \E i \in DOMAIN cmp_st : cmp_st[i] = "failed"

\* some external call of the run raised or was rejected
ExternalCallFailed ==
    \/ ExtractionRaised
    \/ SearchRaised
    \/ PerItemCallFailed
    \/ SynthesisFailed

\* C22: every failure of an external call, at whatever stage, has appended
\* an entry to errors: a run that has ended with errors empty is a run in
\* which no external call failed.
C22_FailuresAreRecorded ==
    (pc = "END" /\ errors = <<>>) => ~ExternalCallFailed

\* C23: in one run there is at most one extraction call, one search
\* request and one synthesis call, at most one relevance call and one
\* classification call per candidate and at most one comparison call per
\* evidence item, whether or not any of them failed.
C23_NoRetry ==
    /\ calls.extraction <= 1
    /\ calls.search <= 1
    /\ calls.synthesis <= 1
    /\ calls.relevance = Len(rel_st) /\ Len(rel_st) <= Len(search_results)
    /\ calls.classification = Len(cls_st) /\ Len(cls_st) <= Len(search_results)
    /\ calls.comparison = Len(cmp_st) /\ Len(cmp_st) <= Len(evidence)

\* a run has ended in which a call of the gate, a call of the comparer and
\* the synthesis call failed, each having been issued once
C23_Witness ==
    /\ pc = "END"
    /\ \E i \in DOMAIN rel_st : rel_st[i] = "failed" \/ cls_st[i] = "failed"
    /\ \E i \in DOMAIN cmp_st : cmp_st[i] = "failed"
    /\ SynthesisFailed
    /\ calls.extraction = 1 /\ calls.search = 1 /\ calls.synthesis = 1
    /\ calls.relevance = Len(search_results)
    /\ calls.comparison = Len(evidence)

(***************************************************************************)
(* The token-overlap rule of the integrity check                           *)
(***************************************************************************)
\* the tokens of the stripped, lower-cased quote
QuoteTokens(q) == split(lower(strip(q)))

\* how many tokens of the quote are among the tokens of the lower-cased content
MatchingTokens(q, text) ==
    Cardinality({i \in DOMAIN QuoteTokens(q) :
                    \E j \in DOMAIN split(lower(text)) :
                        split(lower(text))[j] = QuoteTokens(q)[i]})

\* the candidate meets every condition of admission but the integrity
\* check, and its quote is not a substring of its lower-cased content
OverlapDecides(r) ==
    /\ r.rel.ok /\ r.cls.ok
    /\ r.rel.is_relevant
    /\ r.rel.relevance_score >= 50
    /\ truthy(r.rel.verbatim_quote)
    /\ Len(Get(r.rel.verbatim_quote)) >= 10
    /\ ~contains(lower(ContentOf(r)), lower(strip(Get(r.rel.verbatim_quote))))

InEvidence(r) == \E k \in DOMAIN evidence : evidence[k].source_url = r.url

\* C24: a candidate whose quote is not a substring of its lower-cased
\* content, and that meets the other conditions of admission, is in the
\* evidence exactly when at least 60% of the quote's tokens are tokens of the
\* content (at most five candidates competing): a ratio of exactly 0.6 is
\* accepted, a ratio of 55% is not.
C24_TokenOverlapRule ==
    (GateDone /\ Len(search_results) <= 5) =>
        \A i \in DOMAIN search_results :
            LET r == search_results[i]
                q == Get(r.rel.verbatim_quote)
            IN  OverlapDecides(r) =>
                   /\ Len(QuoteTokens(q)) > 0
                   /\ InEvidence(r) <=>
                         (100 * MatchingTokens(q, ContentOf(r)) >= 60 * Len(QuoteTokens(q)))

\* of two candidates the one with three matching tokens out of five is in
\* the evidence, the one with eleven out of twenty is not
C24_Witness ==
    /\ GateDone
    /\ Len(search_results) = 2
    /\ OverlapDecides(search_results[1]) /\ OverlapDecides(search_results[2])
    /\ LET q1 == Get(search_results[1].rel.verbatim_quote)
           q2 == Get(search_results[2].rel.verbatim_quote)
       IN  /\ Len(QuoteTokens(q1)) = 5
           /\ MatchingTokens(q1, ContentOf(search_results[1])) = 3
           /\ Len(QuoteTokens(q2)) = 20
           /\ MatchingTokens(q2, ContentOf(search_results[2])) = 11
    /\ InEvidence(search_results[1])
    /\ ~InEvidence(search_results[2])

(***************************************************************************)
(* The self-source rule on hostnames that merely end alike                 *)
(***************************************************************************)
\* C25: with an origin URL, a well-formed, non-duplicate result whose
\* hostname is neither the origin's hostname nor a subdomain of it (it may
\* share trailing characters with it, without a dot boundary) is not
\* excluded: it is in the candidate list.
C25_DotDelimitedExclusion ==
    (~IsNone(search_response) /\ ~IsNone(input_source_url)) =>
        LET resp == Get(search_response)
            origin == Get(input_source_url)
        IN  \A k \in DOMAIN resp :
               (WellFormed(resp[k]) /\ ~DuplicateAt(resp, k)
                  /\ ~SameSite(Get(resp[k].url).host, origin))
               => Get(resp[k].url) \in CandidateUrls

(***************************************************************************)
(* Where a run stops                                                       *)
(***************************************************************************)
\* no node occurs twice among the nodes entered
NoReentry == \A j, k \in DOMAIN trace : trace[j] = trace[k] => j = k

\* C26: no node is ever re-entered, and a run in which every external call
\* has returned or failed, and that can take no further step, stands at the
\* end of the graph, after the assembler, with result set.
C26_RunsReachTheEnd ==
    /\ NoReentry
    /\ ~(ENABLED Next) =>
          /\ pc = "END"
          /\ trace # <<>> /\ trace[Len(trace)] = "attribution_assembler"
          /\ ~IsNone(result)

(***************************************************************************)
(* What a Verdict with a definite relation rests on                        *)
(***************************************************************************)
\* the members of the Verdict's assessment list
Members(v) == {v.evidence_list[k] : k \in DOMAIN v.evidence_list}

\* C27: a Verdict whose relation is direct, paraphrase or contradiction has
\* a non-empty assessment list and a best source among its members, and
\* comes from a run whose extraction gave a claim and whose synthesis
\* succeeded; in every Verdict best_source is None exactly when the
\* assessment list is empty.
C27_DefiniteVerdictIsGrounded ==
    ~IsNone(result) =>
        LET v == Get(result)
        IN  /\ v.attribution \in {"direct", "paraphrase", "contradiction"} =>
                  /\ v.evidence_list # <<>>
                  /\ ~IsNone(v.best_source)
                  /\ Get(v.best_source) \in Members(v)
                  /\ ~extraction_failed
                  /\ ~IsNone(extracted_claim)
                  /\ SynthesisSucceeded
            /\ IsNone(v.best_source) <=> (v.evidence_list = <<>>)

\* a contradiction Verdict over two secondary sources
C27_Witness ==
    /\ ~IsNone(result)
    /\ Get(result).attribution = "contradiction"
    /\ Len(Get(result).evidence_list) = 2
    /\ AllSecondary(Get(result).evidence_list)
    /\ ~IsNone(Get(result).best_source)
    /\ Get(Get(result).best_source) \in Members(Get(result))
    /\ SynthesisSucceeded

(***************************************************************************)
(* The two parallel calls of one candidate                                 *)
(***************************************************************************)
\* a call has settled: it returned or it raised
CallSettled(st) == st \in {"ok", "failed"}

\* one of the two calls of candidate i raised
OneCallFailed(i) == rel_st[i] = "failed" \/ cls_st[i] = "failed"

\* C28: once the gate has returned, no call it dispatched is pending; and
\* when one of a candidate's two calls has raised, the candidate's task is
\* settled, and the gate has returned, only if the other call has returned
\* or raised as well.
C28_SiblingCallAwaited ==
    /\ GateDone =>
          \A i \in DOMAIN rel_st : rel_st[i] # "pending" /\ cls_st[i] # "pending"
    /\ \A i \in DOMAIN rel_st :
          (OneCallFailed(i) /\ (GateTaskSettled(i) \/ GateDone)) =>
              CallSettled(rel_st[i]) /\ CallSettled(cls_st[i])

(***************************************************************************)
(* Blank quotes                                                            *)
(***************************************************************************)
\* C29: no Evidence item has a quote that is empty once stripped (a quote
\* of white space only, of any length, is treated as absent), and every
\* admitted quote has at least 10 characters.
C29_NoBlankQuote ==
    \A k \in DOMAIN evidence :
        /\ strip(evidence[k].verbatim_quote) # <<>>
        /\ Len(evidence[k].verbatim_quote) >= 10

(***************************************************************************)
(* A synthesis response that does not fit the Verdict                      *)
(***************************************************************************)
\* the synthesis response was turned away: before the Verdict was built
\* (missing key, relation outside the enum) or by the Verdict's own
\* validation (summary over 500 characters)
ResponseRejected ==
    /\ ~IsNone(llm_result)
    /\ \/ ~Get(llm_result).ok
       \/ Get(llm_result).summary_len > 500

\* C30: when the synthesis response does not conform to the Verdict schema,
\* the run ends with the not_found fallback Verdict, which carries the
\* assessments, a best source among them and a summary of at most 500
\* characters, and with one entry appended to errors.
C30_NonConformantResponse ==
    (Ran("attribution_assembler") /\ ResponseRejected) =>
        /\ pc = "END"
        /\ ~IsNone(result)
        /\ Get(result).attribution = "not_found"
        /\ Get(result).evidence_list = assessments
        /\ ~IsNone(Get(result).best_source)
        /\ Get(Get(result).best_source) \in Members(Get(result))
        /\ Get(result).summary.len <= 500
        /\ Len(errors) = 1

====
